---------------------------- MODULE Spec2Model ----------------------------
(* Model of src/app.py: the crypto registry, the intent extractor, the    *)
(* news fetcher, the market-data fetcher and the chat turn handler.       *)
(* A Python str is a sequence of one-character strings, so that lower(),  *)
(* upper(), title(), split() and the `in` substring test are computed.    *)
(* Texts that the program only passes along (titles, urls, the fixed      *)
(* answer texts, the language model's reply) are TLA+ strings.            *)
EXTENDS Integers, Sequences, FiniteSets, TLC

VARIABLES
    messages,   \* st.session_state.messages
    display,    \* the chat messages rendered by the current script run
    pc,         \* position of the script run
    prompt,     \* the submitted query
    cryptos,    \* extract_crypto_info(prompt)[0]
    qtype,      \* extract_crypto_info(prompt)[1]
    answer,     \* the answer being built by the turn
    calls,      \* external calls made by the current turn, in order
    newsResp,   \* what the news API did for the current turn's request
    news,       \* value returned by get_crypto_news
    results,    \* the results dict of get_crypto_price_data
    idx,        \* 1-based position of the loop of get_crypto_price_data
    failedAt,   \* position of the asset whose processing raised (0: none)
    outcome     \* how the last call or run ended: "none", "answered", "returned", "raised"

vars == <<messages, display, pc, prompt, cryptos, qtype, answer, calls,
          newsResp, news, results, idx, failedAt, outcome>>

-----------------------------------------------------------------------------
(* Bounds *)

MaxTokens == 2

MaxResults == 4

MaxTurns == 2

-----------------------------------------------------------------------------
(* Python str operations *)

LowerLetters ==
    <<"a","b","c","d","e","f","g","h","i","j","k","l","m",
      "n","o","p","q","r","s","t","u","v","w","x","y","z">>

UpperLetters ==
    <<"A","B","C","D","E","F","G","H","I","J","K","L","M",
      "N","O","P","Q","R","S","T","U","V","W","X","Y","Z">>

Range(s) == {s[i] : i \in 1..Len(s)}

\* position of c in a sequence of distinct characters, 0 when it is not in it
LetterIndex(letters, c) ==
    IF \E i \in 1..Len(letters) : letters[i] = c
    THEN CHOOSE i \in 1..Len(letters) : letters[i] = c
    ELSE 0

ToLower == [c \in Range(UpperLetters) |-> LowerLetters[LetterIndex(UpperLetters, c)]]

ToUpper == [c \in Range(LowerLetters) |-> UpperLetters[LetterIndex(LowerLetters, c)]]

IsLetter(c) == c \in DOMAIN ToLower \/ c \in DOMAIN ToUpper

LowerChar(c) == IF c \in DOMAIN ToLower THEN ToLower[c] ELSE c

UpperChar(c) == IF c \in DOMAIN ToUpper THEN ToUpper[c] ELSE c

\* str.lower()
lower(s) == [i \in 1..Len(s) |-> LowerChar(s[i])]

\* str.upper()
upper(s) == [i \in 1..Len(s) |-> UpperChar(s[i])]

\* str.title(): a letter that starts a word is upper-cased, the others lower-cased
title(s) ==
    [i \in 1..Len(s) |->
        IF i = 1 \/ ~IsLetter(s[i - 1]) THEN UpperChar(s[i]) ELSE LowerChar(s[i])]

\* `w in s` for two str
Contains(s, w) ==
    \E i \in 0..(Len(s) - Len(w)) : SubSeq(s, i + 1, i + Len(w)) = w

-----------------------------------------------------------------------------
(* Crypto Registry *)

K_bitcoin == <<"b","i","t","c","o","i","n">>

K_ethereum == <<"e","t","h","e","r","e","u","m">>

K_solana == <<"s","o","l","a","n","a">>

K_bnb == <<"b","n","b">>

K_xrp == <<"x","r","p">>

K_cardano == <<"c","a","r","d","a","n","o">>

\* the keys of CRYPTO_MAP in insertion order (the order dict.items() iterates in)
CRYPTO_KEYS == <<K_bitcoin, K_ethereum, K_solana, K_bnb, K_xrp, K_cardano>>

CRYPTO_MAP(key) ==
    CASE key = K_bitcoin ->
            [symbols |-> << <<"b","t","c">> >>, binance |-> <<"B","T","C","U","S","D","T">>,
             coingecko |-> <<"b","i","t","c","o","i","n">>]
      [] key = K_ethereum ->
            [symbols |-> << <<"e","t","h">> >>, binance |-> <<"E","T","H","U","S","D","T">>,
             coingecko |-> <<"e","t","h","e","r","e","u","m">>]
      [] key = K_solana ->
            [symbols |-> << <<"s","o","l">> >>, binance |-> <<"S","O","L","U","S","D","T">>,
             coingecko |-> <<"s","o","l","a","n","a">>]
      [] key = K_bnb ->
            [symbols |-> << <<"b","n","b">> >>, binance |-> <<"B","N","B","U","S","D","T">>,
             coingecko |-> <<"b","i","n","a","n","c","e","c","o","i","n">>]
      [] key = K_xrp ->
            [symbols |-> << <<"x","r","p">> >>, binance |-> <<"X","R","P","U","S","D","T">>,
             coingecko |-> <<"r","i","p","p","l","e">>]
      [] key = K_cardano ->
            [symbols |-> << <<"a","d","a">> >>, binance |-> <<"A","D","A","U","S","D","T">>,
             coingecko |-> <<"c","a","r","d","a","n","o">>]

-----------------------------------------------------------------------------
(* Intent Extractor *)

\* the condition of line 104 for one registry entry, on the lower-cased query
Mentions(query, crypto) ==
    LET name == lower(crypto)
        symbols == [i \in 1..Len(CRYPTO_MAP(crypto).symbols) |->
                        lower(CRYPTO_MAP(crypto).symbols[i])]
        gecko_name == lower(CRYPTO_MAP(crypto).coingecko)
    IN  \/ Contains(query, name)
        \/ Contains(query, gecko_name)
        \/ \E i \in 1..Len(symbols) : Contains(query, symbols[i])

\* the list `mentioned` as it would be without line 96 (no lower-casing)
mentionedNoLower(raw) ==
    SelectSeq(CRYPTO_KEYS, LAMBDA crypto : Mentions(raw, crypto))

\* lines 96-105: the list `mentioned`, in registry order
mentioned(raw) ==
    LET query == lower(raw)
    IN  SelectSeq(CRYPTO_KEYS, LAMBDA crypto : Mentions(query, crypto))

METRIC_TERMS ==
    { <<"p","r","i","c","e">>, <<"m","a","r","k","e","t">>, <<"d","a","t","a">>,
      <<"v","o","l","u","m","e">>, <<"c","a","p">> }

W_news == <<"n","e","w","s">>

\* the intent with the two tests of lines 108-109 in the other order
IntentSwapped(raw) ==
    LET query == lower(raw)
    IN  IF \E term \in METRIC_TERMS : Contains(query, term) THEN "metrics"
        ELSE IF Contains(query, W_news) THEN "news"
        ELSE "general"

\* lines 107-111: the conditional expression that is the second component
Intent(raw) ==
    LET query == lower(raw)
    IN  IF Contains(query, W_news) THEN "news"
        ELSE IF \E term \in METRIC_TERMS : Contains(query, term) THEN "metrics"
        ELSE "general"

\* list(set(mentioned)): the elements of the set in an order that the hash
\* seed of the process decides, so any arrangement of them
ListOfSet(S) ==
    {l \in [1..Cardinality(S) -> S] : Range(l) = S}

\* the values extract_crypto_info(query) can return
extract_crypto_info(query) ==
    {<<l, Intent(query)>> : l \in ListOfSet(Range(mentioned(query)))}

-----------------------------------------------------------------------------
(* Python dict, date parsing and formatting *)

\* dict.get(k, default); a dict is a function whose domain is its keys
Get(d, k, default) == IF k \in DOMAIN d THEN d[k] ELSE default

EmptyDict == <<>>

Min(a, b) == IF a <= b THEN a ELSE b

Digits == <<"0","1","2","3","4","5","6","7","8","9">>

IsDigit(c) == LetterIndex(Digits, c) > 0

DigitValue(c) == LetterIndex(Digits, c) - 1

\* created.split('T')[0]: the text before the first 'T' (all of it when there is none)
SplitT(s) ==
    IF \E i \in 1..Len(s) : s[i] = "T"
    THEN SubSeq(s, 1, (CHOOSE i \in 1..Len(s) :
                          s[i] = "T" /\ \A j \in 1..(i - 1) : s[j] # "T") - 1)
    ELSE s

Number(s) ==
    IF Len(s) = 4
    THEN 1000 * DigitValue(s[1]) + 100 * DigitValue(s[2]) + 10 * DigitValue(s[3]) + DigitValue(s[4])
    ELSE 10 * DigitValue(s[1]) + DigitValue(s[2])

IsLeap(y) == (y % 4 = 0 /\ y % 100 # 0) \/ y % 400 = 0

DaysInMonth(y, m) ==
    IF m = 2 THEN (IF IsLeap(y) THEN 29 ELSE 28)
    ELSE IF m \in {4, 6, 9, 11} THEN 30 ELSE 31

\* whether datetime.fromisoformat(date) accepts a date-only text YYYY-MM-DD;
\* it raises ValueError on anything else the model feeds it (the empty text,
\* a day the month does not have)
IsIsoDate(date) ==
    /\ Len(date) = 10
    /\ date[5] = "-" /\ date[8] = "-"
    /\ \A i \in {1, 2, 3, 4, 6, 7, 9, 10} : IsDigit(date[i])
    /\ LET y == Number(SubSeq(date, 1, 4))
           m == Number(SubSeq(date, 6, 7))
           d == Number(SubSeq(date, 9, 10))
       IN  y >= 1 /\ m \in 1..12 /\ d \in 1..DaysInMonth(y, m)

MONTH_ABBR ==
    << <<"J","a","n">>, <<"F","e","b">>, <<"M","a","r">>, <<"A","p","r">>,
       <<"M","a","y">>, <<"J","u","n">>, <<"J","u","l">>, <<"A","u","g">>,
       <<"S","e","p">>, <<"O","c","t">>, <<"N","o","v">>, <<"D","e","c">> >>

DigitsOf(n, width) ==
    [i \in 1..width |->
        Digits[1 + ((n \div (IF width - i = 0 THEN 1 ELSE IF width - i = 1 THEN 10
                             ELSE IF width - i = 2 THEN 100 ELSE 1000)) % 10)]]

\* datetime.fromisoformat(date).strftime('%b %d, %Y')
FormatDate(date) ==
    LET y == Number(SubSeq(date, 1, 4))
        m == Number(SubSeq(date, 6, 7))
        d == Number(SubSeq(date, 9, 10))
    IN  MONTH_ABBR[m] \o <<" ">> \o DigitsOf(d, 2) \o <<",", " ">> \o DigitsOf(y, 4)

-----------------------------------------------------------------------------
(* News Fetcher *)

\* an except clause that covers transport errors only
IsRequestExceptionNarrow(exc) == exc \in {"ConnectionError", "Timeout"}

\* the except clause of line 63: the exception classes that
\* requests.RequestException covers
IsRequestException(exc) == exc \in {"ConnectionError", "Timeout", "HTTPError"}

\* line 40
NewsSymbol(crypto_key) == upper(CRYPTO_MAP(crypto_key).symbols[1])

\* lines 54-56: does the date handling of this item raise ValueError
ItemRaises(item) == ~IsIsoDate(SplitT(Get(item, "created_at", <<>>)))

\* lines 54-61: the dict appended for one item
NewsItem(item) ==
    [title |-> Get(item, "title", "No title"),
     url   |-> Get(item, "url", ""),
     date  |-> FormatDate(SplitT(Get(item, "created_at", <<>>)))]

\* results[:3]
FirstThree(res) == SubSeq(res, 1, Min(3, Len(res)))

\* lines 47-62: the body of the try block; exc is the exception it raises
NewsTry(resp) ==
    IF resp.status # "ok"
    THEN [exc |-> resp.status, value |-> <<>>]
    ELSE LET first == FirstThree(Get(resp.data, "results", <<>>))
         IN  IF \E i \in 1..Len(first) : ItemRaises(first[i])
             THEN [exc |-> "ValueError", value |-> <<>>]
             ELSE [exc |-> "none",
                   value |-> [i \in 1..Len(first) |-> NewsItem(first[i])]]

\* lines 38-65: exc = "none" when the function returns value
get_crypto_news(crypto_key, resp) ==
    LET r == NewsTry(resp)
    IN  IF r.exc # "none" /\ IsRequestException(r.exc)
        THEN [exc |-> "none", value |-> <<>>]
        ELSE r

\* the request of line 47
NewsCall(crypto_key) == [api |-> "news", arg |-> NewsSymbol(crypto_key)]

-----------------------------------------------------------------------------
(* Inputs *)

V_ne == <<"n","e">>

V_ws == <<"w","s">>

V_bit == <<"b","i","t">>

V_coin == <<"c","o","i","n">>

V_btc == <<"b","t","c">>

V_eth == <<"e","t","h">>

V_binance == <<"b","i","n","a","n","c","e">>

V_ripple == <<"r","i","p","p","l","e">>

V_ada == <<"a","d","a">>

V_hello == <<"h","e","l","l","o">>

V_price == <<"p","r","i","c","e">>

V_cap == <<"c","a","p">>

V_on == <<"o","n">>

\* words and word fragments the queries are put together from
Vocabulary ==
    METRIC_TERMS \cup
    {W_news, V_ne, V_ws, V_bit, V_coin, V_btc, V_eth, V_binance, V_ripple,
     V_ada, V_hello, K_solana, K_bnb, K_xrp, K_cardano}

Separators == {<<>>, <<" ">>}

Casings == {"lower", "upper", "title"}

Recase(c, s) ==
    IF c = "lower" THEN lower(s) ELSE IF c = "upper" THEN upper(s) ELSE title(s)

RECURSIVE Join(_, _)
Join(toks, sep) ==
    IF Len(toks) = 0 THEN <<>>
    ELSE IF Len(toks) = 1 THEN toks[1]
    ELSE toks[1] \o sep \o Join(Tail(toks), sep)

ExtractQueries ==
    {Recase(c, Join(toks, sep)) :
        c \in Casings, sep \in Separators,
        toks \in UNION {[1..n -> Vocabulary] : n \in 1..MaxTokens}}

D_2024_03_05 ==
    <<"2","0","2","4","-","0","3","-","0","5","T","1","0",":","0","0",":","0","0","Z">>

D_2023_12_31 ==
    <<"2","0","2","3","-","1","2","-","3","1","T","2","3",":","5","9",":","5","9","Z">>

D_2024_02_30 ==
    <<"2","0","2","4","-","0","2","-","3","0","T","0","0",":","0","0",":","0","0","Z">>

\* items of the news API's result list; any of the three fields may be absent
ItemFields ==
    {[title |-> "T1", url |-> "u1", created_at |-> D_2024_03_05],
     [title |-> "T2", url |-> "u2", created_at |-> D_2023_12_31],
     [url |-> "u3", created_at |-> D_2024_03_05],
     [title |-> "T4", created_at |-> D_2023_12_31],
     [created_at |-> D_2024_03_05],
     [title |-> "T5", url |-> "u5"],
     [title |-> "T6", url |-> "u6", created_at |-> D_2024_02_30]}

NewsFailures == {"ConnectionError", "Timeout", "HTTPError"}

NewsResponsesOver(items, maxLen) ==
    {[status |-> f, data |-> EmptyDict] : f \in NewsFailures}
    \cup {[status |-> "ok", data |-> EmptyDict]}
    \cup {[status |-> "ok", data |-> [results |-> r]] :
            r \in UNION {[1..n -> items] : n \in 0..maxLen}}

NewsResponses == NewsResponsesOver(ItemFields, MaxResults)

-----------------------------------------------------------------------------
(* State *)

NoAnswer == [text |-> "", asset |-> <<>>, items |-> <<>>]

NoResponse == [status |-> "none", data |-> EmptyDict]

Rest ==
    /\ messages = <<>>
    /\ display = <<>>
    /\ prompt = <<>>
    /\ cryptos = <<>>
    /\ qtype = "none"
    /\ answer = NoAnswer
    /\ calls = <<>>
    /\ newsResp = NoResponse
    /\ news = <<>>
    /\ results = EmptyDict
    /\ idx = 0
    /\ failedAt = 0
    /\ outcome = "none"

-----------------------------------------------------------------------------
(* extract_crypto_info applied to one query *)

InitExtract ==
    /\ pc = "extract"
    /\ \E q \in ExtractQueries :
        /\ messages = <<>>
        /\ display = <<>>
        /\ prompt = q
        /\ cryptos = <<>>
        /\ qtype = "none"
        /\ answer = NoAnswer
        /\ calls = <<>>
        /\ newsResp = NoResponse
        /\ news = <<>>
        /\ results = EmptyDict
        /\ idx = 0
        /\ failedAt = 0
        /\ outcome = "none"

ExtractStep ==
    /\ pc = "extract"
    /\ \E r \in extract_crypto_info(prompt) :
        /\ cryptos' = r[1]
        /\ qtype' = r[2]
    /\ pc' = "extracted"
    /\ outcome' = "returned"
    /\ UNCHANGED <<messages, display, prompt, answer, calls, newsResp, news,
                   results, idx, failedAt>>

NextExtract == ExtractStep

SpecExtract == InitExtract /\ [][NextExtract]_vars

-----------------------------------------------------------------------------
(* get_crypto_news applied to one asset key and one behaviour of the news API *)

InitNews ==
    /\ pc = "news_call"
    /\ \E k \in Range(CRYPTO_KEYS), resp \in NewsResponses :
        /\ messages = <<>>
        /\ display = <<>>
        /\ prompt = <<>>
        /\ cryptos = <<k>>
        /\ qtype = "news"
        /\ answer = NoAnswer
        /\ calls = <<>>
        /\ newsResp = resp
        /\ news = <<>>
        /\ results = EmptyDict
        /\ idx = 0
        /\ failedAt = 0
        /\ outcome = "none"

NewsStep ==
    /\ pc = "news_call"
    /\ LET r == get_crypto_news(cryptos[1], newsResp)
       IN  /\ news' = r.value
           /\ outcome' = IF r.exc = "none" THEN "returned" ELSE "raised"
    /\ calls' = Append(calls, NewsCall(cryptos[1]))
    /\ pc' = "news_done"
    /\ UNCHANGED <<messages, display, prompt, cryptos, qtype, answer, newsResp,
                   results, idx, failedAt>>

NextNews == NewsStep

SpecNews == InitNews /\ [][NextNews]_vars

-----------------------------------------------------------------------------
(* Market Data Fetcher *)

\* a JSON value: a number, a string that holds a number, another string, null
JNum(n) == [t |-> "num", v |-> n]

JNumStr(n) == [t |-> "numstr", v |-> n]

JText == [t |-> "text", v |-> 0]

JNull == [t |-> "null", v |-> 0]

\* float(x) and int(x): ValueError on a string that holds no number,
\* TypeError on None
ConvertRaises(x) == x.t \in {"text", "null"}

Convert(x) == x.v

\* what the exchange API can do for GET /ticker/24hr
BinanceResponses ==
    {[status |-> "ok", data |-> [lastPrice |-> JNumStr(65432)]],
     [status |-> "ok", data |-> [lastPrice |-> JText]],
     [status |-> "ok", data |-> [code |-> JNum(-1121)]],
     [status |-> "ConnectionError", data |-> EmptyDict]}

MarketData ==
    [market_cap |-> [usd |-> JNum(1200)],
     price_change_percentage_24h |-> JNum(-2),
     total_volume |-> [usd |-> JNum(34)]]

\* what the market-data API can do for GET /coins/<id>
GeckoResponses ==
    {[status |-> "ok", data |-> [market_cap_rank |-> JNum(1), market_data |-> MarketData]],
     [status |-> "ok", data |-> [market_data |-> MarketData]],
     [status |-> "ok", data |-> [market_cap_rank |-> JNull, market_data |-> MarketData]],
     [status |-> "ok", data |-> [market_cap_rank |-> JNum(1),
                                 market_data |-> [market_cap |-> [usd |-> JNull],
                                                  price_change_percentage_24h |-> JNum(-2),
                                                  total_volume |-> [usd |-> JNum(34)]]]],
     [status |-> "ok", data |-> [error |-> JText]],
     [status |-> "ConnectionError", data |-> EmptyDict]}

BinanceCall(crypto) == [api |-> "binance", arg |-> CRYPTO_MAP(crypto).binance]

GeckoCall(crypto) == [api |-> "coingecko", arg |-> CRYPTO_MAP(crypto).coingecko]

\* lines 82-88: exc is the first exception the dict display raises
Snapshot(binance_data, gecko_data) ==
    LET rank == Get(gecko_data, "market_cap_rank", JNum(0))
        md == gecko_data["market_data"]
    IN  IF "lastPrice" \notin DOMAIN binance_data THEN [exc |-> "KeyError", value |-> EmptyDict]
        ELSE IF ConvertRaises(binance_data["lastPrice"]) THEN [exc |-> "ValueError", value |-> EmptyDict]
        ELSE IF "market_data" \notin DOMAIN gecko_data THEN [exc |-> "KeyError", value |-> EmptyDict]
        ELSE IF ConvertRaises(md["market_cap"]["usd"]) THEN [exc |-> "TypeError", value |-> EmptyDict]
        ELSE IF ConvertRaises(rank) THEN [exc |-> "TypeError", value |-> EmptyDict]
        ELSE IF ConvertRaises(md["price_change_percentage_24h"]) THEN [exc |-> "TypeError", value |-> EmptyDict]
        ELSE IF ConvertRaises(md["total_volume"]["usd"]) THEN [exc |-> "TypeError", value |-> EmptyDict]
        ELSE [exc |-> "none",
              value |-> [price |-> Convert(binance_data["lastPrice"]),
                         market_cap |-> Convert(md["market_cap"]["usd"]),
                         rank |-> Convert(rank),
                         change_24h |-> Convert(md["price_change_percentage_24h"]),
                         volume_24h |-> Convert(md["total_volume"]["usd"])]]

\* lines 72-88: one pass of the loop body for `crypto`; calls are the requests
\* it issued before it finished or raised
AssetData(crypto, b, g) ==
    IF b.status # "ok"
    THEN [exc |-> b.status, value |-> EmptyDict, calls |-> <<BinanceCall(crypto)>>]
    ELSE IF g.status # "ok"
    THEN [exc |-> g.status, value |-> EmptyDict,
          calls |-> <<BinanceCall(crypto), GeckoCall(crypto)>>]
    ELSE LET r == Snapshot(b.data, g.data)
         IN  [exc |-> r.exc, value |-> r.value,
              calls |-> <<BinanceCall(crypto), GeckoCall(crypto)>>]

\* results[crypto] = value
Put(d, k, v) == [x \in (DOMAIN d) \cup {k} |-> IF x = k THEN v ELSE d[x]]

\* an except clause that returns what was built so far
PriceExceptKeep(res) == res

\* lines 90-92: what the except clause returns
PriceExcept(res) == EmptyDict

-----------------------------------------------------------------------------
(* Conversation Loop *)

CLARIFY_METRICS == "Please specify a cryptocurrency for market data."

\* line 130 with the text of line 142
CLARIFY_NEWS_COPIED == CLARIFY_METRICS

CLARIFY_NEWS == "Please specify a cryptocurrency for news updates."

NEWS_HEADER == "**Latest {} News:**"

NO_NEWS == "No recent news found for {}"

MARKET_HEADER == "**Current Market Data:**"

MARKET_FAIL == "Could not retrieve market data at this time."

\* l[-1]
FirstIsLast(l) == l[Len(l)]

\* l[0]: cryptos[0] of lines 132, 134 and 138
First(l) == l[1]

UserMessage(q) == [role |-> "user", content |-> q]

AssistantMessage(a) == [role |-> "assistant", content |-> a]

\* an assignment of a fresh list in place of the append
AppendUserReset(msgs, q) == <<UserMessage(q)>>

\* line 124
AppendUser(msgs, q) == Append(msgs, UserMessage(q))

\* line 171
AppendAssistant(msgs, a) == Append(msgs, AssistantMessage(a))

\* lines 133-138
NewsAnswer(list, news_list) ==
    IF news_list # <<>>
    THEN [text |-> NEWS_HEADER, asset |-> title(First(list)), items |-> news_list]
    ELSE [text |-> NO_NEWS, asset |-> title(First(list)), items |-> <<>>]

\* lines 150-157: the block of one asset
Block(crypto, stats) ==
    [name |-> title(crypto), symbol |-> upper(CRYPTO_MAP(crypto).symbols[1]),
     price |-> stats.price, market_cap |-> stats.market_cap, rank |-> stats.rank,
     change_24h |-> stats.change_24h, volume_24h |-> stats.volume_24h]

\* lines 145-159
MetricsAnswer(list, data) ==
    IF DOMAIN data # {}
    THEN LET present == SelectSeq(list, LAMBDA c : c \in DOMAIN data)
         IN  [text |-> MARKET_HEADER, asset |-> <<>>,
              items |-> [i \in 1..Len(present) |-> Block(present[i], data[present[i]])]]
    ELSE [text |-> MARKET_FAIL, asset |-> <<>>, items |-> <<>>]

LlmCall(q) == [api |-> "ollama", arg |-> q]

\* what ollama.chat can do
LlmResponses ==
    {[status |-> "ok", content |-> "L1"],
     [status |-> "ConnectionError", content |-> ""],
     [status |-> "ResponseError", content |-> ""]}

Q_hello == Join(<<V_hello, <<"t","h","e","r","e">> >>, <<" ">>)

Q_news == title(W_news)

Q_btc_news == Join(<<upper(V_btc), W_news>>, <<" ">>)

Q_news_price_eth_btc == Join(<<W_news, V_on, V_price, V_eth, upper(V_btc)>>, <<" ">>)

Q_price == V_price

Q_ada_cap == Join(<<title(V_ada), V_cap>>, <<" ">>)

Q_xrp_btc_price == Join(<<upper(K_xrp), V_btc, V_price>>, <<" ">>)

\* the queries a user submits to the chat
LoopQueries ==
    {Q_hello, Q_news, Q_btc_news, Q_news_price_eth_btc, Q_price, Q_ada_cap, Q_xrp_btc_price}

I_full1 == [title |-> "T1", url |-> "u1", created_at |-> D_2024_03_05]

I_full2 == [title |-> "T2", url |-> "u2", created_at |-> D_2023_12_31]

I_bare == [created_at |-> D_2024_03_05]

I_undated == [title |-> "T5", url |-> "u5"]

\* what the news API does for the request of a chat turn
LoopNewsResponses ==
    {[status |-> f, data |-> EmptyDict] : f \in NewsFailures}
    \cup {[status |-> "ok", data |-> EmptyDict]}
    \cup {[status |-> "ok", data |-> [results |-> r]] :
            r \in {<<>>, <<I_full1>>, <<I_undated>>, <<I_bare, I_full2>>,
                   <<I_full2, I_bare, I_full1, I_undated>>}}

UserCount(msgs) == Len(SelectSeq(msgs, LAMBDA m : m.role = "user"))

Init ==
    /\ pc = "idle"
    /\ Rest

\* a script run with no submission: lines 116-121 render the history, line 123 is false
Rerun ==
    /\ pc = "idle"
    /\ display' = messages
    /\ UNCHANGED <<messages, pc, prompt, cryptos, qtype, answer, calls, newsResp,
                   news, results, idx, failedAt, outcome>>

\* lines 119-126
Submit ==
    /\ pc = "idle"
    /\ UserCount(messages) < MaxTurns
    /\ \E q \in LoopQueries :
        \E r \in extract_crypto_info(q) :
            /\ display' = messages
            /\ messages' = AppendUser(messages, q)
            /\ prompt' = q
            /\ cryptos' = r[1]
            /\ qtype' = r[2]
    /\ answer' = NoAnswer
    /\ calls' = <<>>
    /\ newsResp' = NoResponse
    /\ news' = <<>>
    /\ results' = EmptyDict
    /\ idx' = 0
    /\ failedAt' = 0
    /\ outcome' = "none"
    /\ pc' = "branch"

\* lines 128-130
NewsNoAssets ==
    /\ pc = "branch"
    /\ qtype = "news"
    /\ cryptos = <<>>
    /\ answer' = [text |-> CLARIFY_NEWS, asset |-> <<>>, items |-> <<>>]
    /\ pc' = "append"
    /\ UNCHANGED <<messages, display, prompt, cryptos, qtype, calls, newsResp,
                   news, results, idx, failedAt, outcome>>

\* lines 131-138; an exception that get_crypto_news lets through ends the run
NewsWithAssets ==
    /\ pc = "branch"
    /\ qtype = "news"
    /\ cryptos # <<>>
    /\ \E resp \in LoopNewsResponses :
        LET r == get_crypto_news(First(cryptos), resp)
        IN  /\ newsResp' = resp
            /\ calls' = Append(calls, NewsCall(First(cryptos)))
            /\ IF r.exc = "none"
               THEN /\ news' = r.value
                    /\ answer' = NewsAnswer(cryptos, r.value)
                    /\ pc' = "append"
                    /\ outcome' = "returned"
               ELSE /\ pc' = "idle"
                    /\ outcome' = "raised"
                    /\ UNCHANGED <<news, answer>>
    /\ UNCHANGED <<messages, display, prompt, cryptos, qtype, results, idx, failedAt>>

\* lines 140-142
MetricsNoAssets ==
    /\ pc = "branch"
    /\ qtype = "metrics"
    /\ cryptos = <<>>
    /\ answer' = [text |-> CLARIFY_METRICS, asset |-> <<>>, items |-> <<>>]
    /\ pc' = "append"
    /\ UNCHANGED <<messages, display, prompt, cryptos, qtype, calls, newsResp,
                   news, results, idx, failedAt, outcome>>

\* lines 143-144 and 69-70: get_crypto_price_data(cryptos) is entered
MetricsStart ==
    /\ pc = "branch"
    /\ qtype = "metrics"
    /\ cryptos # <<>>
    /\ results' = EmptyDict
    /\ idx' = 1
    /\ pc' = "fetch"
    /\ UNCHANGED <<messages, display, prompt, cryptos, qtype, answer, calls,
                   newsResp, news, failedAt, outcome>>

\* lines 71-92: one pass of the loop; the function returns when the loop is
\* over or when the pass raises
PriceIter ==
    /\ pc = "fetch"
    /\ idx <= Len(cryptos)
    /\ \E b \in BinanceResponses, g \in GeckoResponses :
        LET r == AssetData(cryptos[idx], b, g)
        IN  /\ calls' = calls \o r.calls
            /\ IF r.exc = "none"
               THEN /\ results' = Put(results, cryptos[idx], r.value)
                    /\ idx' = idx + 1
                    /\ pc' = IF idx = Len(cryptos) THEN "render" ELSE "fetch"
                    /\ outcome' = IF idx = Len(cryptos) THEN "returned" ELSE outcome
                    /\ UNCHANGED failedAt
               ELSE /\ results' = PriceExcept(results)
                    /\ failedAt' = idx
                    /\ pc' = "render"
                    /\ outcome' = "returned"
                    /\ UNCHANGED idx
    /\ UNCHANGED <<messages, display, prompt, cryptos, qtype, answer, newsResp, news>>

\* lines 144-159, with data the value get_crypto_price_data returned
MetricsRender ==
    /\ pc = "render"
    /\ answer' = MetricsAnswer(cryptos, results)
    /\ pc' = "append"
    /\ UNCHANGED <<messages, display, prompt, cryptos, qtype, calls, newsResp,
                   news, results, idx, failedAt, outcome>>

\* lines 161-169; nothing catches what ollama.chat raises, so it ends the run
General ==
    /\ pc = "branch"
    /\ qtype = "general"
    /\ \E r \in LlmResponses :
        /\ calls' = Append(calls, LlmCall(prompt))
        /\ IF r.status = "ok"
           THEN /\ answer' = [text |-> r.content, asset |-> <<>>, items |-> <<>>]
                /\ pc' = "append"
                /\ outcome' = "returned"
           ELSE /\ pc' = "idle"
                /\ outcome' = "raised"
                /\ UNCHANGED answer
    /\ UNCHANGED <<messages, display, prompt, cryptos, qtype, newsResp, news,
                   results, idx, failedAt>>

\* lines 171-173
AppendAnswer ==
    /\ pc = "append"
    /\ messages' = AppendAssistant(messages, answer)
    /\ display' = Append(display, AssistantMessage(answer))
    /\ pc' = "idle"
    /\ outcome' = "answered"
    /\ UNCHANGED <<prompt, cryptos, qtype, answer, calls, newsResp, news,
                   results, idx, failedAt>>

Next ==
    \/ Rerun
    \/ Submit
    \/ NewsNoAssets
    \/ NewsWithAssets
    \/ MetricsNoAssets
    \/ MetricsStart
    \/ PriceIter
    \/ MetricsRender
    \/ General
    \/ AppendAnswer

Spec == Init /\ [][Next]_vars

-----------------------------------------------------------------------------
(* Properties *)

\* C1: no failure is fatal to a turn. Whenever the script is back at rest
\* after a submission, the last message of the history is the assistant's
\* answer to it, never the user's message.
C1_TurnAlwaysAnswered ==
    (pc = "idle" /\ messages # <<>>) => messages[Len(messages)].role = "assistant"

\* C2: the message history is append-only and order-preserving. Every step
\* leaves the messages it found in place and unchanged and adds new ones
\* only at the end, and a script run that only renders (no submission, the
\* script at rest before and after) leaves the history as it was.
C2_AppendOnly ==
    [][ /\ Len(messages') >= Len(messages)
        /\ SubSeq(messages', 1, Len(messages)) = messages
        /\ (pc = "idle" /\ pc' = "idle") => messages' = messages ]_vars

\* C2 witness: two turns were answered and the history was rendered again.
C2_Witness ==
    /\ pc = "idle"
    /\ Len(messages) = 4
    /\ display = messages
    /\ messages[1].role = "user" /\ messages[2].role = "assistant"

\* C3: on a news or metrics turn with no recognised asset no external call
\* is made at any point of the turn, and the answer is the fixed
\* clarification message of that intent, which is what the turn appends.
C3_ClarificationNoCall ==
    (qtype \in {"news", "metrics"} /\ cryptos = <<>> /\ pc \in {"branch", "append", "idle"}) =>
        LET fixed == IF qtype = "news"
                     THEN "Please specify a cryptocurrency for news updates."
                     ELSE "Please specify a cryptocurrency for market data."
        IN  /\ calls = <<>>
            /\ outcome # "raised"
            /\ pc \in {"append", "idle"} =>
                 answer = [text |-> fixed, asset |-> <<>>, items |-> <<>>]
            /\ pc = "idle" =>
                 /\ outcome = "answered"
                 /\ messages[Len(messages)] = [role |-> "assistant", content |-> answer]

\* C3 witness: a news turn with no asset was answered.
C3_Witness ==
    /\ pc = "idle"
    /\ outcome = "answered"
    /\ qtype = "news"
    /\ cryptos = <<>>
    /\ prompt = Q_news

\* C4: the market-data batch is all-or-nothing. Once get_crypto_price_data
\* has returned, its mapping either holds a complete snapshot for every
\* requested asset or is empty; if the processing of one asset raised, the
\* mapping is empty, no request was issued for a later asset, and the turn
\* answers "Could not retrieve market data at this time."
C4_AllOrNothing ==
    (qtype = "metrics" /\ cryptos # <<>> /\ pc \in {"render", "append", "idle"}) =>
        /\ \/ /\ failedAt = 0
              /\ DOMAIN results = {cryptos[i] : i \in 1..Len(cryptos)}
              /\ \A k \in DOMAIN results :
                    DOMAIN results[k] =
                        {"price", "market_cap", "rank", "change_24h", "volume_24h"}
           \/ /\ failedAt > 0
              /\ DOMAIN results = {}
        /\ failedAt > 0 =>
              /\ \A i \in 1..Len(calls) :
                    \E j \in 1..failedAt :
                        calls[i].arg \in {CRYPTO_MAP(cryptos[j]).binance,
                                          CRYPTO_MAP(cryptos[j]).coingecko}
              /\ pc \in {"append", "idle"} =>
                    answer = [text |-> "Could not retrieve market data at this time.",
                              asset |-> <<>>, items |-> <<>>]
        /\ pc = "idle" =>
              /\ outcome = "answered"
              /\ messages[Len(messages)] = [role |-> "assistant", content |-> answer]

\* C4 witness: the second asset of a batch failed after the first one's
\* snapshot had been built, and the turn was answered.
C4_Witness ==
    /\ pc = "idle"
    /\ outcome = "answered"
    /\ qtype = "metrics"
    /\ Len(cryptos) = 2
    /\ failedAt = 2
    /\ Len(calls) >= 3

\* C5: a network or HTTP-status failure of the news request never leaves
\* get_crypto_news as an exception; the function returns the empty list and
\* the turn answers "No recent news found for <Asset>", exactly as for a
\* successful response with no results.
C5_NewsFailureIsNoNews ==
    (qtype = "news" /\ cryptos # <<>> /\ pc \in {"append", "idle"}
        /\ \/ newsResp.status \in {"ConnectionError", "Timeout", "HTTPError"}
           \/ /\ newsResp.status = "ok"
              /\ Len(Get(newsResp.data, "results", <<>>)) = 0) =>
        /\ outcome # "raised"
        /\ news = <<>>
        /\ answer = [text |-> "No recent news found for {}",
                     asset |-> title(cryptos[1]), items |-> <<>>]
        /\ pc = "idle" =>
              /\ outcome = "answered"
              /\ messages[Len(messages)] = [role |-> "assistant", content |-> answer]

\* C5 witness: the news request failed with an HTTP error status and the
\* turn was answered.
C5_Witness ==
    /\ pc = "idle"
    /\ outcome = "answered"
    /\ qtype = "news"
    /\ cryptos # <<>>
    /\ newsResp.status = "HTTPError"

\* C6: missing fields of a news item default to placeholders. For a
\* successful response whose items may lack title, url or created_at (the
\* fields that are present being well formed), get_crypto_news returns, with
\* one item for each of the first three results, the title "No title" and
\* the url "" standing in for an absent title and url.
C6_MissingFieldsDefault ==
    (pc = "news_done" /\ newsResp.status = "ok"
        /\ \A i \in 1..Len(Get(newsResp.data, "results", <<>>)) :
              LET item == Get(newsResp.data, "results", <<>>)[i]
              IN  "created_at" \in DOMAIN item => IsIsoDate(SplitT(item["created_at"]))) =>
        LET R == Get(newsResp.data, "results", <<>>)
        IN  /\ outcome = "returned"
            /\ Len(news) = Min(3, Len(R))
            /\ \A i \in 1..Len(news) :
                  /\ news[i].title = (IF "title" \in DOMAIN R[i] THEN R[i]["title"] ELSE "No title")
                  /\ news[i].url = (IF "url" \in DOMAIN R[i] THEN R[i]["url"] ELSE "")

\* C7: the intent is one of news, metrics, general, by fixed priority over
\* the lower-cased query: news if it contains "news", otherwise metrics if it
\* contains one of price, market, data, volume, cap, otherwise general; a
\* query with no keyword and no asset gives general and no asset.
C7_IntentPriority ==
    pc = "extracted" =>
        LET q == lower(prompt)
            hasNews == Contains(q, <<"n","e","w","s">>)
            hasMetric ==
                \/ Contains(q, <<"p","r","i","c","e">>)
                \/ Contains(q, <<"m","a","r","k","e","t">>)
                \/ Contains(q, <<"d","a","t","a">>)
                \/ Contains(q, <<"v","o","l","u","m","e">>)
                \/ Contains(q, <<"c","a","p">>)
            hasAsset ==
                \E i \in 1..Len(CRYPTO_KEYS) :
                    \/ Contains(q, CRYPTO_KEYS[i])
                    \/ Contains(q, CRYPTO_MAP(CRYPTO_KEYS[i]).coingecko)
                    \/ Contains(q, CRYPTO_MAP(CRYPTO_KEYS[i]).symbols[1])
        IN  /\ qtype \in {"news", "metrics", "general"}
            /\ hasNews => qtype = "news"
            /\ (~hasNews /\ hasMetric) => qtype = "metrics"
            /\ (~hasNews /\ ~hasMetric) => qtype = "general"
            /\ (~hasNews /\ ~hasMetric /\ ~hasAsset) => cryptos = <<>>

\* C7 witness: a query that holds "news" and a metric term was classified news.
C7_Witness ==
    /\ pc = "extracted"
    /\ qtype = "news"
    /\ Contains(lower(prompt), <<"p","r","i","c","e">>)
    /\ prompt # lower(prompt)

\* C8: for a successful news response with result list R, get_crypto_news
\* returns min(3, |R|) items, the i-th made from the i-th entry of R.
C8_FirstThreeInOrder ==
    (pc = "news_done" /\ newsResp.status = "ok") =>
        LET R == Get(newsResp.data, "results", <<>>)
        IN  /\ outcome = "returned"
            /\ Len(news) = Min(3, Len(R))
            /\ \A i \in 1..Len(news) :
                  /\ news[i].title = (IF "title" \in DOMAIN R[i] THEN R[i]["title"] ELSE "No title")
                  /\ news[i].url = (IF "url" \in DOMAIN R[i] THEN R[i]["url"] ELSE "")

\* C9: asset extraction is substring-based and case-insensitive. The
\* returned collection has no duplicates and holds exactly the registry keys
\* whose key, provider id or symbol is a substring of the lower-cased query;
\* the query written in another letter case gives the same assets and intent.
C9_SubstringCaseInsensitive ==
    pc = "extracted" =>
        LET q == lower(prompt)
            found ==
                {CRYPTO_KEYS[i] : i \in
                    {j \in 1..Len(CRYPTO_KEYS) :
                        \/ Contains(q, CRYPTO_KEYS[j])
                        \/ Contains(q, CRYPTO_MAP(CRYPTO_KEYS[j]).coingecko)
                        \/ \E n \in 1..Len(CRYPTO_MAP(CRYPTO_KEYS[j]).symbols) :
                              Contains(q, CRYPTO_MAP(CRYPTO_KEYS[j]).symbols[n])}}
        IN  /\ \A i, j \in 1..Len(cryptos) : i # j => cryptos[i] # cryptos[j]
            /\ {cryptos[i] : i \in 1..Len(cryptos)} = found
            /\ \A c \in Casings :
                  \A r \in extract_crypto_info(Recase(c, prompt)) :
                      /\ {r[1][i] : i \in 1..Len(r[1])} = {cryptos[i] : i \in 1..Len(cryptos)}
                      /\ r[2] = qtype

\* C9 witness: an upper-case query that names one asset by its provider id
\* only and a second asset gave both.
C9_Witness ==
    /\ pc = "extracted"
    /\ prompt = upper(prompt)
    /\ Len(cryptos) = 2
    /\ cryptos[1] = K_xrp
    /\ ~Contains(lower(prompt), K_xrp)

=============================================================================
